---- MODULE Spec2Model ----
(***************************************************************************)
(* Model of the ImpactX dashboard script exporter                          *)
(*   src/python/impactx/dashboard/Toolbar/exportTemplate.py                *)
(*   src/python/impactx/dashboard/Input/distributionParameters/            *)
(*       distributionFunctions.py                                          *)
(* and of the run of a driver script against the engine                    *)
(*   examples/alignment/run_alignment.py                                   *)
(*   examples/epac2004_benchmarks/run_thermal.py                           *)
(*   examples/kurth/run_kurth_10nC_periodic.py                             *)
(*                                                                         *)
(* Text is a sequence of tokens (strings); the text the Python code        *)
(* returns is the concatenation of the tokens.  A number's text is one     *)
(* token per character, so that float() and the formatting of a float in   *)
(* an f-string are computed character by character.  A character is a     *)
(* string of one character; a character outside ASCII is written as U+ and *)
(* its code point in hexadecimal, "U+00A0" for the no-break space.         *)
(*                                                                         *)
(* The names in the state -- the distribution, the lattice elements, the   *)
(* parameters -- are those the dashboard's selection lists offer: classes  *)
(* of the engine and the parameters of their constructors (EngineNames),   *)
(* or "" where nothing is selected.  The exporter's functions print a name *)
(* as it is, whatever it is; what Python does with the exported script is  *)
(* stated for these names only.                                            *)
(***************************************************************************)
EXTENDS Integers, Sequences, FiniteSets, TLC

VARIABLES
    state,      \* the dashboard's shared UI state (trame `state`)
    called,     \* the exporter function called last ("none" before any call)
    raised,     \* the exception that call raised ("none": it returned)
    mapping,    \* the dict convert_distribution_parameters_to_valid_type built
    text,       \* the text build_distribution_list / build_lattice_list returned
    script,     \* the script being run: a sequence of statements
    prog,       \* which script runs: "none", "exported" or an example's name
    pc,         \* index of the next statement of the run
    status,     \* "idle", "running", "done", "SyntaxError", "NameError" or "EngineError"
    calls,      \* the engine calls made so far, in order
    lattice     \* the engine's sim.lattice

vars == <<state, called, raised, mapping, text, script, prog, pc, status, calls, lattice>>

(***************************************************************************)
(* Only({e : x \in {v}}) is e with x bound to the value of v: v is         *)
(* evaluated once, as Python evaluates the right-hand side of x = v once.  *)
(***************************************************************************)
Only(S) == CHOOSE x \in S : TRUE

\* The k-th member of a set of positions, in increasing order.
Nth(P, k) == CHOOSE j \in P : Cardinality({i \in P : i < j}) = k - 1

(***************************************************************************)
(* Characters and decimal numbers                                          *)
(***************************************************************************)
Digits == <<"0", "1", "2", "3", "4", "5", "6", "7", "8", "9">>

DigitChars == {Digits[i] : i \in 1..10}

DigitVal(c) == (CHOOSE i \in 1..10 : Digits[i] = c) - 1

\* The characters float() skips at both ends of the text it reads
\* (Py_ISSPACE): space, \t, \n, \v, \f, \r.  (str.strip() strips
\* \x1c..\x1f as well; float() does not.)
Whitespace == {" ", "\t", "\n", "", "\f", "\r"}

IsASCII(c) == Len(c) = 1

\* \x7f, the one ASCII character float() does not copy from a text that is
\* not all ASCII.
Delete == ""

HexDigits ==
    <<"0", "1", "2", "3", "4", "5", "6", "7", "8", "9", "A", "B", "C", "D", "E", "F">>

HexVal(c) == (CHOOSE i \in 1..16 : HexDigits[i] = c) - 1

\* The number the first k characters of the string w, hexadecimal digits, spell.
RECURSIVE HexToNatUpTo(_, _)
HexToNatUpTo(w, k) ==
    IF k = 0 THEN 0 ELSE 16 * HexToNatUpTo(w, k - 1) + HexVal(SubSeq(w, k, k))

\* The code point of a character written U+...
CodePoint(c) == Only({HexToNatUpTo(h, Len(h)) : h \in {SubSeq(c, 3, Len(c))}})

\* The whitespace outside ASCII (Py_UNICODE_ISSPACE, Unicode 14): next
\* line, no-break space, ogham space mark, en quad .. hair space, line and
\* paragraph separator, narrow no-break, medium mathematical and
\* ideographic space.
UnicodeSpaces ==
    { "U+0085", "U+00A0", "U+1680", "U+2000", "U+2001", "U+2002", "U+2003", "U+2004",
      "U+2005", "U+2006", "U+2007", "U+2008", "U+2009", "U+200A", "U+2028", "U+2029",
      "U+202F", "U+205F", "U+3000" }

\* The digit zero of every script that has decimal digits (Unicode 14);
\* the digits one to nine follow their zero.
UnicodeZeros ==
    { "U+0660", "U+06F0", "U+07C0", "U+0966", "U+09E6", "U+0A66", "U+0AE6", "U+0B66",
      "U+0BE6", "U+0C66", "U+0CE6", "U+0D66", "U+0DE6", "U+0E50", "U+0ED0", "U+0F20",
      "U+1040", "U+1090", "U+17E0", "U+1810", "U+1946", "U+19D0", "U+1A80", "U+1A90",
      "U+1B50", "U+1BB0", "U+1C40", "U+1C50", "U+A620", "U+A8D0", "U+A900", "U+A9D0",
      "U+A9F0", "U+AA50", "U+ABF0", "U+FF10", "U+104A0", "U+10D30", "U+11066", "U+110F0",
      "U+11136", "U+111D0", "U+112F0", "U+11450", "U+114D0", "U+11650", "U+116C0",
      "U+11730", "U+118E0", "U+11950", "U+11C50", "U+11D50", "U+11DA0", "U+16A60",
      "U+16AC0", "U+16B50", "U+1D7CE", "U+1D7D8", "U+1D7E2", "U+1D7EC", "U+1D7F6",
      "U+1E140", "U+1E2F0", "U+1E950", "U+1FBF0" }

DecimalZeros == {CodePoint(z) : z \in UnicodeZeros}

\* Py_UNICODE_TODECIMAL: the digit a decimal digit character stands for,
\* -1 for any other character.
ToDecimal(c) ==
    Only({ IF \E z \in DecimalZeros : cp - z \in 0..9
           THEN cp - (CHOOSE z \in DecimalZeros : cp - z \in 0..9)
           ELSE 0 - 1
           : cp \in {CodePoint(c)} })

Lower(c) ==
    CASE c = "E" -> "e"
      [] c = "I" -> "i"
      [] c = "N" -> "n"
      [] c = "F" -> "f"
      [] c = "A" -> "a"
      [] c = "T" -> "t"
      [] c = "Y" -> "y"
      [] OTHER -> c

LowerSeq(s) == [i \in 1..Len(s) |-> Lower(s[i])]

Drop(s, n) == SubSeq(s, n + 1, Len(s))

\* _PyUnicode_TransformDecimalAndSpaceToASCII: a text that is all ASCII is
\* taken as it is.  Of any other text a character below \x7f is copied, a
\* whitespace character becomes a space and a decimal digit its ASCII
\* digit; at the first character that is none of these the text ends with
\* a "?".
TransformDecimalAndSpaceToASCII(s) ==
    IF \A i \in 1..Len(s) : IsASCII(s[i]) THEN s
    ELSE LET Copied(c) == IsASCII(c) /\ c # Delete
             Other(c)  == ~Copied(c) /\ c \notin UnicodeSpaces /\ ToDecimal(c) < 0
             To(c)     == IF Copied(c) THEN c
                          ELSE IF c \in UnicodeSpaces THEN " "
                          ELSE IF ToDecimal(c) < 0 THEN "?"
                          ELSE Digits[ToDecimal(c) + 1]
         IN  Only({ SubSeq([i \in 1..n |-> To(s[i])], 1, n)
                    : n \in {IF \E i \in 1..Len(s) : Other(s[i])
                             THEN CHOOSE i \in 1..Len(s) :
                                      Other(s[i]) /\ \A j \in 1..(i - 1) : ~Other(s[j])
                             ELSE Len(s)} })

\* The text float() reads of s: what is between the whitespace at both
\* ends.
Strip(s) ==
    IF \A i \in 1..Len(s) : s[i] \in Whitespace THEN <<>>
    ELSE SubSeq(s,
                CHOOSE a \in 1..Len(s) :
                    s[a] \notin Whitespace /\ \A j \in 1..(a - 1) : s[j] \in Whitespace,
                CHOOSE b \in 1..Len(s) :
                    s[b] \notin Whitespace /\ \A j \in (b + 1)..Len(s) : s[j] \in Whitespace)

\* _Py_string_to_number_with_underscores: an underscore must stand between
\* two digits.  Returns <<ok, the text without its underscores>>.
RemoveUnderscores(s) ==
    IF \A i \in 1..Len(s) : s[i] # "_" THEN <<TRUE, s>>
    ELSE IF \E i \in 1..Len(s) :
                /\ s[i] = "_"
                /\ \/ i = 1
                   \/ i = Len(s)
                   \/ s[i - 1] \notin DigitChars
                   \/ s[i + 1] \notin DigitChars
        THEN <<FALSE, <<>>>>
    ELSE Only({ <<TRUE, [k \in 1..Cardinality(keep) |->
                           s[CHOOSE i \in keep : Cardinality({j \in keep : j < i}) = k - 1]]>>
                : keep \in {{i \in 1..Len(s) : s[i] # "_"}} })

\* How many digits s starts with.
NumLeadingDigits(s) ==
    CHOOSE n \in 0..Len(s) :
        /\ \A i \in 1..n : s[i] \in DigitChars
        /\ n = Len(s) \/ s[n + 1] \notin DigitChars

\* The number the first k characters of s, all digits, spell.
RECURSIVE DigitsToNatUpTo(_, _)
DigitsToNatUpTo(s, k) ==
    IF k = 0 THEN 0 ELSE 10 * DigitsToNatUpTo(s, k - 1) + DigitVal(s[k])

DigitsToNat(s) == DigitsToNatUpTo(s, Len(s))

RECURSIVE NatToDigits(_)
NatToDigits(n) ==
    IF n < 10 THEN <<Digits[n + 1]>>
    ELSE Append(NatToDigits(n \div 10), Digits[(n % 10) + 1])

Zeros(n) == [i \in 1..n |-> "0"]

\* How many "0" s starts with, and ends with.
NumLeadingZeros(s) ==
    CHOOSE n \in 0..Len(s) :
        /\ \A i \in 1..n : s[i] = "0"
        /\ n = Len(s) \/ s[n + 1] # "0"

NumTrailingZeros(s) ==
    CHOOSE n \in 0..Len(s) :
        /\ \A i \in (Len(s) - n + 1)..Len(s) : s[i] = "0"
        /\ n = Len(s) \/ s[Len(s) - n] # "0"

(***************************************************************************)
(* Natural numbers of any size, for the arithmetic of float() and repr():  *)
(* the sequence of the decimal digits 0..9, the most significant first,    *)
(* with no leading zero; zero is <<0>>.                                    *)
(***************************************************************************)
BigOf(s) == [i \in 1..Len(s) |-> DigitVal(s[i])]

BigText(a) == [i \in 1..Len(a) |-> Digits[a[i] + 1]]

BigZeros(n) == [i \in 1..n |-> 0]

\* a without its leading zeros.
BigTrim(a) ==
    SubSeq(a,
           CHOOSE k \in 1..Len(a) :
               (k = Len(a) \/ a[k] # 0) /\ \A j \in 1..(k - 1) : a[j] = 0,
           Len(a))

\* 2 * a: a digit doubles and takes the carry of the digit below it, which
\* is 1 when that digit is 5 or more.
BigDouble(a) ==
    IF a[1] >= 5
    THEN SubSeq([i \in 1..(Len(a) + 1) |->
                    (2 * (IF i = 1 THEN 0 ELSE a[i - 1])
                     + (IF i <= Len(a) /\ a[i] >= 5 THEN 1 ELSE 0)) % 10], 1, Len(a) + 1)
    ELSE SubSeq([i \in 1..Len(a) |->
                    (2 * a[i] + (IF i < Len(a) /\ a[i + 1] >= 5 THEN 1 ELSE 0)) % 10],
                1, Len(a))

\* a \div 2: a digit halves and takes 5 when the digit above it is odd.
BigHalve(a) ==
    Only({ BigTrim(h)
           : h \in {SubSeq([i \in 1..Len(a) |->
                               (a[i] + (IF i > 1 /\ a[i - 1] % 2 = 1 THEN 10 ELSE 0)) \div 2],
                           1, Len(a))} })

\* 5 * a = (10 * a) \div 2
BigTimes5(a) == Only({BigHalve(t) : t \in {a \o <<0>>}})

\* a * 2^n and a * 5^n
RECURSIVE BigTimesPow2(_, _)
BigTimesPow2(a, n) ==
    IF n = 0 THEN a
    ELSE IF n = 1 THEN BigDouble(a)
    ELSE Only({ Only({BigTimesPow2(h, n - k) : h \in {BigTimesPow2(a, k)}})
                : k \in {n \div 2} })

RECURSIVE BigTimesPow5(_, _)
BigTimesPow5(a, n) ==
    IF n = 0 THEN a
    ELSE IF n = 1 THEN BigTimes5(a)
    ELSE Only({ Only({BigTimesPow5(h, n - k) : h \in {BigTimesPow5(a, k)}})
                : k \in {n \div 2} })

\* The first position from i on at which a and b, of one length, differ;
\* Len(a) + 1 if there is none.
FirstDifference(a, b, i) ==
    CHOOSE j \in i..(Len(a) + 1) :
        /\ j = Len(a) + 1 \/ a[j] # b[j]
        /\ \A k \in i..(j - 1) : a[k] = b[k]

\* a < b
BigLess(a, b) ==
    IF Len(a) # Len(b) THEN Len(a) < Len(b)
    ELSE Only({ j <= Len(a) /\ a[j] < b[j] : j \in {FirstDifference(a, b, 1)} })

\* a - b, for a >= b: a digit borrows when, below it, the first digit of a
\* that differs from b's is the smaller one.
BigMinus(a, b) ==
    Only({ Only({ BigTrim(d)
                  : d \in {SubSeq([i \in 1..Len(a) |->
                                      Only({ (10 + a[i] - bb[i]
                                              - (IF j <= Len(a) /\ a[j] < bb[j] THEN 1 ELSE 0)) % 10
                                             : j \in {FirstDifference(a, bb, i + 1)} })],
                                  1, Len(a))} })
           : bb \in {BigZeros(Len(a) - Len(b)) \o b} })

\* a + 1
BigIncrement(a) ==
    Only({ IF n = Len(a) THEN <<1>> \o BigZeros(n)
           ELSE SubSeq([i \in 1..Len(a) |->
                           IF i < Len(a) - n THEN a[i]
                           ELSE IF i = Len(a) - n THEN a[i] + 1 ELSE 0], 1, Len(a))
           : n \in {CHOOSE n \in 0..Len(a) :
                        /\ \A i \in (Len(a) - n + 1)..Len(a) : a[i] = 9
                        /\ n = Len(a) \/ a[Len(a) - n] # 9} })

(***************************************************************************)
(* A Python float is an IEEE 754 double.  A finite one is q * 2^e with     *)
(* q < 2^53 and e >= -1074, and q >= 2^52 unless e = -1074.                *)
(***************************************************************************)
TwoTo52 == <<4, 5, 0, 3, 5, 9, 9, 6, 2, 7, 3, 7, 0, 4, 9, 6>>

TwoTo53 == <<9, 0, 0, 7, 1, 9, 9, 2, 5, 4, 7, 4, 0, 9, 9, 2>>

\* A lower bound of floor(log2(10^t)), for t >= 0, and of floor(log2(10^-t)).
Log2Pow10(t) == (t * 33219) \div 10000

Log2Pow10Neg(t) == 0 - ((t * 33220 + 9999) \div 10000)

\* n / m = (r / d) * 2^b with 1 <= r / d < 2: from a b that is not too
\* large, d doubles until 2 * d > r.
RECURSIVE BinaryExponent(_, _, _)
BinaryExponent(r, d, b) ==
    Only({ IF BigLess(r, d2) THEN [r |-> r, d |-> d, b |-> b]
           ELSE BinaryExponent(r, d2, b + 1)
           : d2 \in {BigDouble(d)} })

Scaled(n, m) ==
    Only({ IF b0 >= 0
           THEN Only({BinaryExponent(n, d, b0) : d \in {BigTimesPow2(m, b0)}})
           ELSE Only({BinaryExponent(r, m, b0) : r \in {BigTimesPow2(n, 0 - b0)}})
           : b0 \in {IF Len(n) > Len(m) THEN Log2Pow10(Len(n) - Len(m) - 1)
                     ELSE Log2Pow10Neg(Len(m) - Len(n) + 1)} })

\* k more bits of the quotient r / d, r < 2 * d: q takes a bit, r what is
\* left, doubled.
RECURSIVE QuotientBits(_, _, _, _)
QuotientBits(r, d, q, k) ==
    IF k = 0 THEN [r |-> r, q |-> q]
    ELSE IF k = 1
        THEN IF BigLess(r, d)
             THEN [r |-> BigDouble(r), q |-> BigDouble(q)]
             ELSE Only({ [r |-> BigDouble(rest), q |-> BigIncrement(q2)]
                         : rest \in {BigMinus(r, d)}, q2 \in {BigDouble(q)} })
    ELSE Only({ Only({QuotientBits(h.r, d, h.q, k - k1) : h \in {QuotientBits(r, d, q, k1)}})
                : k1 \in {k \div 2} })

Binary64(kind, q, e) == [kind |-> kind, q |-> q, e |-> e]

\* The quotient of bits bits and what is left of r / d, rounded to the
\* nearest, a tie to the even one; e is the exponent of the last bit.
RoundedQuotient(r, d, bits, e) ==
    Only({ Only({ IF q = <<0>> THEN Binary64("zero", <<0>>, 0)
                  ELSE IF q = TwoTo53
                      THEN IF e + 1 > 971 THEN Binary64("inf", <<0>>, 0)
                           ELSE Binary64("fin", TwoTo52, e + 1)
                  ELSE Binary64("fin", q, e)
                  : q \in {IF BigLess(d, h.r) \/ (h.r = d /\ h.q[Len(h.q)] % 2 = 1)
                           THEN BigIncrement(h.q) ELSE h.q} })
           : h \in {QuotientBits(r, d, <<0>>, bits)} })

\* The double nearest to n / m, for naturals n, m > 0: correctly rounded,
\* as _Py_dg_strtod rounds.
NearestDouble(n, m) ==
    Only({ IF s.b > 1023 THEN Binary64("inf", <<0>>, 0)
           ELSE IF s.b < 0 - 1075 THEN Binary64("zero", <<0>>, 0)
           ELSE IF s.b - 52 >= 0 - 1074 THEN RoundedQuotient(s.r, s.d, 53, s.b - 52)
           ELSE RoundedQuotient(s.r, s.d, s.b + 1075, 0 - 1074)
           : s \in {Scaled(n, m)} })

\* The digits that tell every double from every other (DBL_DECIMAL_DIG).
DecimalDig == 17

\* The shortest decimal that float() reads back as the double q * 2^e,
\* and of the shortest the nearest to it, as repr() finds it
\* (_Py_dg_dtoa, mode 0).  The decimals read back as the double lie
\* between the midpoints lo and hi to its two neighbours, the midpoints
\* themselves when q is even; below a power of two the neighbour is at
\* half the distance.  v, lo and hi are in units of 2^(e - 2), or of
\* 10^(e - 2) once multiplied by 5^(2 - e).  Low(n) is v cut after n
\* digits and High(n) the next decimal of n digits; one of the two is
\* between lo and hi for n = DecimalDig at the latest.  Returns the digits
\* and the exponent of ten.
ShortestChoice(v, lo, hi, closed, e10) ==
    LET L       == Len(v)
        Low(n)  == SubSeq(v, 1, n) \o BigZeros(L - n)
        High(n) == BigIncrement(SubSeq(v, 1, n)) \o BigZeros(L - n)
        InLow(n)  == \E x \in {Low(n)} : IF closed THEN ~BigLess(x, lo) ELSE BigLess(lo, x)
        InHigh(n) == \E x \in {High(n)} : IF closed THEN ~BigLess(hi, x) ELSE BigLess(x, hi)
        \* v - Low(n) against High(n) - v: -1, 0 or 1
        Nearer(n) ==
            IF n = L \/ v[n + 1] < 5 THEN 0 - 1
            ELSE IF v[n + 1] > 5 \/ \E i \in (n + 2)..L : v[i] # 0 THEN 1
            ELSE 0
        Up(n) ==
            IF InLow(n) /\ InHigh(n)
            THEN Nearer(n) = 1 \/ (Nearer(n) = 0 /\ v[n] % 2 = 1)
            ELSE ~InLow(n)
    IN  Only({ Only({ Only({ [digits |-> SubSeq(p, 1, Len(p) - z), e |-> e10 + (L - n) + z]
                             : z \in {CHOOSE z \in 0..(Len(p) - 1) :
                                          /\ \A i \in (Len(p) - z + 1)..Len(p) : p[i] = 0
                                          /\ p[Len(p) - z] # 0} })
                      : p \in {IF Up(n) THEN BigIncrement(SubSeq(v, 1, n)) ELSE SubSeq(v, 1, n)} })
               : n \in {Only({ CHOOSE n \in fit : \A k \in fit : n <= k
                              : fit \in {{n \in 1..(IF L < DecimalDig THEN L ELSE DecimalDig) :
                                             InLow(n) \/ InHigh(n)}} })} })

ShortestDecimal(q, e) ==
    Only({ Only({ Only({ ShortestChoice(v, lo, hi, q[Len(q)] % 2 = 0, IF e >= 2 THEN 0 ELSE e - 2)
                         : v \in {IF e >= 2 THEN BigTimesPow2(v4, e - 2)
                                  ELSE BigTimesPow5(v4, 2 - e)},
                           lo \in {IF e >= 2 THEN BigTimesPow2(lo4, e - 2)
                                   ELSE BigTimesPow5(lo4, 2 - e)},
                           hi \in {IF e >= 2 THEN BigTimesPow2(hi4, e - 2)
                                   ELSE BigTimesPow5(hi4, 2 - e)} })
                  : v4 \in {BigDouble(q2)},
                    lo4 \in {IF q = TwoTo52 /\ e > 0 - 1074
                             THEN Only({BigMinus(x, <<1>>) : x \in {BigDouble(q2)}})
                             ELSE Only({BigDouble(x) : x \in {BigMinus(q2, <<1>>)}})},
                    hi4 \in {Only({BigDouble(x) : x \in {BigIncrement(q2)}})} })
           : q2 \in {BigDouble(q)} })

(***************************************************************************)
(* A float is named by what repr() prints of it: a finite one is           *)
(* (-1)^neg * m * 10^e, m the digits of the shortest decimal that reads    *)
(* back as it, with no zero at either end; zero is "0" with e = 0.         *)
(***************************************************************************)
Finite(neg, m, e) == [kind |-> "fin", neg |-> neg, m |-> m, e |-> e]

Zero(neg) == Finite(neg, <<"0">>, 0)

Inf(neg) == [kind |-> "inf", neg |-> neg, m |-> <<>>, e |-> 0]

NaN == [kind |-> "nan", neg |-> FALSE, m |-> <<>>, e |-> 0]

NotANumber == [kind |-> "ValueError", neg |-> FALSE, m |-> <<>>, e |-> 0]

\* The double nearest to d * 10^e, d digits with no zero at either end.
RoundedFloat(neg, d, e) ==
    Only({ IF x.kind = "inf" THEN Inf(neg)
           ELSE IF x.kind = "zero" THEN Zero(neg)
           ELSE Only({Finite(neg, BigText(s.digits), s.e) : s \in {ShortestDecimal(x.q, x.e)}})
           : x \in {Only({ NearestDouble(n, m)
                           : n \in {BigOf(d) \o BigZeros(IF e >= 0 THEN e ELSE 0)},
                             m \in {<<1>> \o BigZeros(IF e >= 0 THEN 0 ELSE 0 - e)} })} })

\* The float of the decimal d * 10^e.  A decimal of 10^310 or more is
\* above every double, one below 10^-324 is below half of the smallest.
\* A decimal of at most 15 digits (DBL_DIG) between 1e-307 and 1e308 is
\* the shortest that reads back as its double: two of them never read as
\* one double.  Every other decimal is rounded.
Normalize(neg, d, e) ==
    IF Len(d) + e > 309 THEN Inf(neg)
    ELSE IF Len(d) + e < 0 - 323 THEN Zero(neg)
    ELSE IF Len(d) <= 15 /\ Len(d) + e >= 0 - 306 /\ Len(d) + e <= 308 THEN Finite(neg, d, e)
    ELSE RoundedFloat(neg, d, e)

\* The float of digits * 10^e, digits with any zeros at its ends.
DecimalFloat(neg, digits, e) ==
    Only({ IF lz = Len(digits) THEN Zero(neg)
           ELSE Only({ Normalize(neg, SubSeq(digits, lz + 1, Len(digits) - tz), e + tz)
                       : tz \in {NumTrailingZeros(digits)} })
           : lz \in {NumLeadingZeros(digits)} })

\* MAX_ABS_EXP and MAX_DIGITS of float()'s strtod: an exponent above
\* MaxAbsExp, or of more than 9 digits after its leading zeros, is read as
\* MaxAbsExp; a text of more than MaxDigits digits is no number.
MaxAbsExp == 1100000000

MaxDigits == 1000000000

\* The exponent part of a float literal: <<>> or e[+-]digits.  Returns
\* <<ok, value>>.
ParseExponent(r) ==
    IF r = <<>> THEN <<TRUE, 0>>
    ELSE IF Lower(Head(r)) # "e" THEN <<FALSE, 0>>
    ELSE LET r1   == Tail(r)
             sgn  == r1 # <<>> /\ Head(r1) \in {"+", "-"}
             eneg == r1 # <<>> /\ Head(r1) = "-"
             r2   == IF sgn THEN Tail(r1) ELSE r1
         IN  IF r2 = <<>> \/ NumLeadingDigits(r2) # Len(r2) THEN <<FALSE, 0>>
             ELSE Only({ <<TRUE, IF eneg THEN 0 - n ELSE n>>
                         : n \in {Only({ IF Len(r3) > 9 THEN MaxAbsExp
                                         ELSE Only({ IF k > MaxAbsExp THEN MaxAbsExp ELSE k
                                                     : k \in {DigitsToNat(r3)} })
                                         : r3 \in {Drop(r2, NumLeadingZeros(r2))} })} })

\* digits [. [digits]] [exponent] | . digits [exponent], the sign read.
\* ni digits, then (dot) a point and nf digits, then the exponent.  The
\* digits counted against MaxDigits are those after the leading zeros, and
\* those after the point.
ParseDecimal(neg, s, ni, dot, nf) ==
    LET digits == SubSeq(s, 1, ni) \o (IF dot THEN SubSeq(s, ni + 2, ni + 1 + nf) ELSE <<>>)
        rest   == Drop(s, ni + (IF dot THEN 1 ELSE 0) + nf)
    IN  Only({ IF ni + nf = 0 \/ ~ex[1] THEN NotANumber
               ELSE Only({ IF Len(ds) - NumLeadingZeros(ds) > MaxDigits \/ nf > MaxDigits
                           THEN NotANumber
                           ELSE DecimalFloat(neg, ds, ex[2] - nf)
                           : ds \in {digits} })
               : ex \in {ParseExponent(rest)} })

ParseUnsigned(neg, s) ==
    IF LowerSeq(s) \in {<<"i", "n", "f">>, <<"i", "n", "f", "i", "n", "i", "t", "y">>}
        THEN Inf(neg)
    ELSE IF LowerSeq(s) = <<"n", "a", "n">> THEN NaN
    ELSE Only({ Only({ ParseDecimal(neg, s, ni, ni < Len(s) /\ s[ni + 1] = ".", nf)
                       : nf \in {IF ni < Len(s) /\ s[ni + 1] = "."
                                 THEN NumLeadingDigits(Drop(s, ni + 1)) ELSE 0} })
                : ni \in {NumLeadingDigits(s)} })

\* float(str): the text is brought to ASCII, the underscores between
\* digits are left out, the whitespace at both ends is stripped; then
\* [sign] (inf | infinity | nan | decimal).
ParseFloat(str) ==
    Only({ IF ~u[1] THEN NotANumber
           ELSE Only({ Only({ ParseUnsigned(s1 # <<>> /\ Head(s1) = "-", s2)
                              : s2 \in {IF s1 # <<>> /\ Head(s1) \in {"+", "-"}
                                        THEN Tail(s1) ELSE s1} })
                       : s1 \in {Strip(u[2])} })
           : u \in {RemoveUnderscores(TransformDecimalAndSpaceToASCII(str))} })

\* The exponent of repr's exponent notation: a sign and at least two digits.
ExponentText(ex) ==
    IF ex < 0
    THEN <<"e", "-">> \o (IF ex > 0 - 10 THEN <<"0">> ELSE <<>>) \o NatToDigits(0 - ex)
    ELSE <<"e", "+">> \o (IF ex < 10 THEN <<"0">> ELSE <<>>) \o NatToDigits(ex)

\* The digits ds of a finite float, the point before digit decpt + 1.
DigitsRepr(ds, decpt) ==
    IF decpt > 16 \/ decpt <= 0 - 4
        THEN <<ds[1]>> \o (IF Len(ds) > 1 THEN <<".">> \o Drop(ds, 1) ELSE <<>>)
                       \o ExponentText(decpt - 1)
    ELSE IF decpt <= 0 THEN <<"0", ".">> \o Zeros(0 - decpt) \o ds
    ELSE IF decpt >= Len(ds) THEN ds \o Zeros(decpt - Len(ds)) \o <<".", "0">>
    ELSE SubSeq(ds, 1, decpt) \o <<".">> \o Drop(ds, decpt)

\* repr(x) of a float, which is what f"{x}" prints: the shortest digits,
\* in fixed notation when -4 < decpt <= 16 and in exponent notation
\* otherwise, ".0" added to a fixed notation without a fraction.
FloatRepr(x) ==
    (IF x.neg THEN <<"-">> ELSE <<>>)
    \o (IF x.kind = "inf" THEN <<"i", "n", "f">>
        ELSE IF x.kind = "nan" THEN <<"n", "a", "n">>
        ELSE DigitsRepr(x.m, Len(x.m) + x.e))

\* str(n) of an int, which is what f"{n}" prints.
IntStr(n) == IF n < 0 THEN <<"-">> \o NatToDigits(0 - n) ELSE NatToDigits(n)

(***************************************************************************)
(* Python containers                                                       *)
(***************************************************************************)
\* A dict is the sequence of its items in insertion order.
HasKey(d, k) == \E i \in 1..Len(d) : d[i].key = k

\* d[k] = v: a key the dict holds keeps its place and takes the new value.
DictPut(d, k, v) ==
    IF HasKey(d, k)
    THEN [i \in 1..Len(d) |-> IF d[i].key = k THEN [key |-> k, value |-> v] ELSE d[i]]
    ELSE Append(d, [key |-> k, value |-> v])

\* sep.join(parts[i:]), for texts.
RECURSIVE JoinFrom(_, _, _)
JoinFrom(sep, parts, i) ==
    IF i > Len(parts) THEN <<>>
    ELSE IF i = Len(parts) THEN parts[i]
    ELSE parts[i] \o sep \o JoinFrom(sep, parts, i + 1)

Join(sep, parts) == JoinFrom(sep, parts, 1)

RECURSIVE FlattenFrom(_, _)
FlattenFrom(parts, i) ==
    IF i > Len(parts) THEN <<>> ELSE parts[i] \o FlattenFrom(parts, i + 1)

Flatten(parts) == FlattenFrom(parts, 1)

(***************************************************************************)
(* distributionFunctions.py                                                *)
(***************************************************************************)
\* param_is_valid := param["parameter_error_message"] == []
ParamIsValid(param) == param.parameter_error_message = <<>>

\* The comprehension's filter: if (param_is_valid := ...)
ParamFilterKeepsAll(param_is_valid) == TRUE

ParamFilter(param_is_valid) == param_is_valid

\* The comprehension's value: float(param["parameter_default_value"]) if
\* param_is_valid else 0.0
ParamValue(param, param_is_valid) ==
    IF param_is_valid THEN ParseFloat(param.parameter_default_value)
    ELSE Zero(FALSE)

\* A later item of a name the dict holds, put first-wins (dict.setdefault).
DictStoreFirstWins(d, k, v) == IF HasKey(d, k) THEN d ELSE DictPut(d, k, v)

\* The comprehension stores key: value into the dict it builds.
DictStore(d, k, v) == DictPut(d, k, v)

\* The comprehension over the records i, i+1, ... into the dict d.
\* float() raising ValueError ends it.
RECURSIVE ConvertFrom(_, _, _)
ConvertFrom(params, i, d) ==
    IF i > Len(params) THEN [exc |-> "none", dict |-> d]
    ELSE IF ~ParamFilter(ParamIsValid(params[i])) THEN ConvertFrom(params, i + 1, d)
    ELSE Only({ IF value.kind = "ValueError" THEN [exc |-> "ValueError", dict |-> <<>>]
                ELSE Only({ ConvertFrom(params, i + 1, d2)
                            : d2 \in {DictStore(d, params[i].parameter_name, value)} })
                : value \in {ParamValue(params[i], ParamIsValid(params[i]))} })

convert_distribution_parameters_to_valid_type(st) ==
    ConvertFrom(st.selectedDistributionParameters, 1, <<>>)

(***************************************************************************)
(* exportTemplate.py                                                       *)
(***************************************************************************)
Spaces(n) == [i \in 1..n |-> " "]

IndentationFlat(st) == Spaces(4)

\* " " * (8 if state.selectedDistributionType == "Twiss" else 4)
Indentation(st) == Spaces(IF st.selectedDistributionType = "Twiss" THEN 8 ELSE 4)

\* f"{indentation}{key}={value}"
ParameterLine(indentation, item) ==
    indentation \o <<item.key, "=">> \o FloatRepr(item.value)

\* ",\n".join(... for key, value in parameters.items())
DistributionParameters(st, parameters) ==
    Only({ Join(<<",\n">>, lines)
           : lines \in {[i \in 1..Len(parameters) |->
                            ParameterLine(Indentation(st), parameters[i])]} })

\* The two return statements.
DistributionText(st, distribution_parameters) ==
    IF st.selectedDistributionType = "Twiss"
    THEN <<"distr = distribution.", st.selectedDistribution, "(\n", "    **twiss(\n">>
         \o distribution_parameters
         \o <<",\n", "    )\n", ")">>
    ELSE <<"distr = distribution.", st.selectedDistribution, "(\n">>
         \o distribution_parameters
         \o <<",\n", ")">>

build_distribution_list(st) ==
    Only({ IF conv.exc # "none" THEN [exc |-> conv.exc, text |-> <<>>]
           ELSE [exc |-> "none",
                 text |-> DistributionText(st, DistributionParameters(st, conv.dict))]
           : conv \in {convert_distribution_parameters_to_valid_type(st)} })

\* parameter_input_checker_for_lattice(element): the element's validated
\* key/value pairs; an invalid parameter is left out.
RECURSIVE CheckedFrom(_, _, _)
CheckedFrom(params, i, d) ==
    IF i > Len(params) THEN d
    ELSE Only({ IF params[i].parameter_error_message = <<>> /\ value.kind = "fin"
                THEN Only({ CheckedFrom(params, i + 1, d2)
                            : d2 \in {DictPut(d, params[i].parameter_name, value)} })
                ELSE CheckedFrom(params, i + 1, d)
                : value \in {ParseFloat(params[i].parameter_default_value)} })

parameter_input_checker_for_lattice(element) == CheckedFrom(element.parameters, 1, <<>>)

\* ", ".join(f"{key}={value}" for key, value in items)
ElementArguments(items) ==
    Only({ Join(<<", ">>, args)
           : args \in {[i \in 1..Len(items) |->
                           <<items[i].key, "=">> \o FloatRepr(items[i].value)]} })

\* f'elements.{element["name"]}(' + ", ".join(...) + ")"
LatticeElementText(element) ==
    <<"elements.", element.name, "(">>
    \o Only({ElementArguments(items) : items \in {parameter_input_checker_for_lattice(element)}})
    \o <<")">>

\* for element in state.selectedLatticeList
LatticeElementsDeduplicated(st) ==
    LET l == st.selectedLatticeList
        keep == {i \in 1..Len(l) : \A j \in 1..(i - 1) : l[j] # l[i]}
    IN  [k \in 1..Cardinality(keep) |->
            l[CHOOSE i \in keep : Cardinality({j \in keep : j < i}) = k - 1]]

LatticeElements(st) == st.selectedLatticeList

build_lattice_list(st) ==
    <<"lattice_configuration = [\n    ">>
    \o Only({ Join(<<",\n    ">>, texts)
              : texts \in {[i \in 1..Len(LatticeElements(st)) |->
                               LatticeElementText(LatticeElements(st)[i])]} })
    \o <<"\n]">>

\* One statement of a script: the engine call it makes ("import" and "local"
\* make none), its source text, and the elements it constructs (a call of
\* elements.<Kind> each) or an append/extend adds.
Stmt(call, txt, arg) == [call |-> call, text |-> txt, arg |-> arg]

ElementNames(st) == [i \in 1..Len(st.selectedLatticeList) |-> st.selectedLatticeList[i].name]

\* The f-string of input_file, statement by statement.
InputFileTemplate(st, distr_text) ==
    << Stmt("import", <<"\nfrom impactx import ImpactX, distribution, elements, twiss\n\n">>, <<>>),
       Stmt("ImpactX", <<"sim = ImpactX()\n\n">>, <<>>),
       Stmt("flag", <<"sim.particle_shape = ">> \o IntStr(st.particle_shape) \o <<"\n">>, <<>>),
       Stmt("flag", <<"sim.space_charge = False\n">>, <<>>),
       Stmt("flag", <<"sim.csr = False\n">>, <<>>),
       Stmt("flag", <<"sim.slice_step_diagnostics = True\n\n">>, <<>>),
       Stmt("init_grids", <<"sim.init_grids()\n\n">>, <<>>),
       Stmt("local", <<"# Initialize particle beam\nkin_energy_MeV = ">>
                     \o FloatRepr(st.kin_energy_MeV) \o <<"\n">>, <<>>),
       Stmt("local", <<"bunch_charge_C = ">> \o FloatRepr(st.bunch_charge_C) \o <<"\n">>, <<>>),
       Stmt("local", <<"npart = ">> \o IntStr(st.npart) \o <<"\n\n">>, <<>>),
       Stmt("ref_particle",
            <<"# Reference particle\nref = sim.particle_container().ref_particle()\n">>, <<>>),
       Stmt("set_charge_qe", <<"ref.set_charge_qe(">> \o FloatRepr(st.charge_qe) \o <<")">>, <<>>),
       Stmt("set_mass_MeV", <<".set_mass_MeV(">> \o FloatRepr(st.mass_MeV) \o <<")">>, <<>>),
       Stmt("set_kin_energy_MeV", <<".set_kin_energy_MeV(kin_energy_MeV)\n\n">>, <<>>),
       Stmt("distribution", distr_text \o <<"\n">>, <<>>),
       Stmt("add_particles", <<"sim.add_particles(bunch_charge_C, distr, npart)\n\n">>, <<>>),
       Stmt("elements", build_lattice_list(st) \o <<"\n">>, ElementNames(st)),
       Stmt("extend", <<"sim.lattice.extend(lattice_configuration)\n\n">>, ElementNames(st)),
       Stmt("track_particles", <<"# Simulate\nsim.track_particles()\n\n">>, <<>>),
       Stmt("finalize", <<"sim.finalize()\n">>, <<>>) >>

\* input_file(): the exception of build_distribution_list passes through;
\* nothing else is checked.
input_file(st) ==
    Only({ IF distr.exc # "none" THEN [exc |-> distr.exc, script |-> <<>>]
           ELSE [exc |-> "none", script |-> InputFileTemplate(st, distr.text)]
           : distr \in {build_distribution_list(st)} })

\* The text of a script.
ScriptText(sc) == Flatten([i \in 1..Len(sc) |-> sc[i].text])

(***************************************************************************)
(* The example driver scripts, statement by statement                      *)
(***************************************************************************)
ReferenceParticleStmts ==
    << Stmt("ref_particle", <<"ref = sim.particle_container().ref_particle()">>, <<>>),
       Stmt("set_charge_qe", <<"ref.set_charge_qe(1.0)">>, <<>>),
       Stmt("set_mass_MeV", <<".set_mass_MeV(938.27208816)">>, <<>>),
       Stmt("set_kin_energy_MeV", <<".set_kin_energy_MeV(kin_energy_MeV)">>, <<>>) >>

run_alignment ==
    << Stmt("import", <<"from impactx import ImpactX, distribution, elements">>, <<>>),
       Stmt("ImpactX", <<"sim = ImpactX()">>, <<>>),
       Stmt("flag", <<"sim.particle_shape = 2">>, <<>>),
       Stmt("flag", <<"sim.space_charge = False">>, <<>>),
       Stmt("flag", <<"sim.slice_step_diagnostics = True">>, <<>>),
       Stmt("init_grids", <<"sim.init_grids()">>, <<>>),
       Stmt("local", <<"kin_energy_MeV = 2.0e3">>, <<>>),
       Stmt("local", <<"bunch_charge_C = 1.0e-9">>, <<>>),
       Stmt("local", <<"npart = 100000">>, <<>>) >>
    \o ReferenceParticleStmts \o
    << Stmt("distribution", <<"distr = distribution.Waterbag(...)">>, <<>>),
       Stmt("add_particles", <<"sim.add_particles(bunch_charge_C, distr, npart)">>, <<>>),
       Stmt("elements", <<"monitor = elements.BeamMonitor(\"monitor\", backend=\"h5\")">>,
            <<"monitor">>),
       Stmt("local", <<"ns = 1">>, <<>>),
       Stmt("elements", <<"lattice = [monitor, elements.Quad(...), monitor]">>, <<"Quad">>),
       Stmt("extend", <<"sim.lattice.extend(lattice)">>, <<"monitor", "Quad", "monitor">>),
       Stmt("track_particles", <<"sim.track_particles()">>, <<>>),
       Stmt("finalize", <<"sim.finalize()">>, <<>>) >>

run_thermal ==
    << Stmt("import", <<"from impactx import ImpactX, distribution, elements">>, <<>>),
       Stmt("ImpactX", <<"sim = ImpactX()">>, <<>>),
       Stmt("flag", <<"sim.n_cell = [56, 56, 64]">>, <<>>),
       Stmt("flag", <<"sim.particle_shape = 2">>, <<>>),
       Stmt("flag", <<"sim.space_charge = True">>, <<>>),
       Stmt("flag", <<"sim.dynamic_size = True">>, <<>>),
       Stmt("flag", <<"sim.prob_relative = [4.0]">>, <<>>),
       Stmt("flag", <<"sim.slice_step_diagnostics = False">>, <<>>),
       Stmt("init_grids", <<"sim.init_grids()">>, <<>>),
       Stmt("local", <<"kin_energy_MeV = 0.1">>, <<>>),
       Stmt("local", <<"bunch_charge_C = 1.4285714285714285714e-10">>, <<>>),
       Stmt("local", <<"npart = 10000">>, <<>>) >>
    \o ReferenceParticleStmts \o
    << Stmt("distribution", <<"distr = distribution.Thermal(...)">>, <<>>),
       Stmt("add_particles", <<"sim.add_particles(bunch_charge_C, distr, npart)">>, <<>>),
       Stmt("elements", <<"monitor = elements.BeamMonitor(\"monitor\", backend=\"h5\")">>,
            <<"monitor">>),
       Stmt("append", <<"sim.lattice.append(monitor)">>, <<"monitor">>),
       Stmt("elements", <<"constf = elements.Constf(...)">>, <<"constf">>),
       Stmt("append", <<"sim.lattice.append(constf)">>, <<"constf">>),
       Stmt("append", <<"sim.lattice.append(monitor)">>, <<"monitor">>),
       Stmt("track_particles", <<"sim.track_particles()">>, <<>>),
       Stmt("finalize", <<"sim.finalize()">>, <<>>) >>

run_kurth_10nC_periodic ==
    << Stmt("import", <<"from impactx import ImpactX, distribution, elements">>, <<>>),
       Stmt("ImpactX", <<"sim = ImpactX()">>, <<>>),
       Stmt("flag", <<"sim.n_cell = [48, 48, 40]">>, <<>>),
       Stmt("flag", <<"sim.particle_shape = 2">>, <<>>),
       Stmt("flag", <<"sim.space_charge = True">>, <<>>),
       Stmt("flag", <<"sim.slice_step_diagnostics = True">>, <<>>),
       Stmt("init_grids", <<"sim.init_grids()">>, <<>>),
       Stmt("local", <<"kin_energy_MeV = 2.0e3">>, <<>>),
       Stmt("local", <<"bunch_charge_C = 1.0e-8">>, <<>>),
       Stmt("local", <<"npart = 10000">>, <<>>) >>
    \o ReferenceParticleStmts \o
    << Stmt("distribution", <<"distr = distribution.Kurth6D(...)">>, <<>>),
       Stmt("add_particles", <<"sim.add_particles(bunch_charge_C, distr, npart)">>, <<>>),
       Stmt("elements", <<"monitor = elements.BeamMonitor(\"monitor\", backend=\"h5\")">>,
            <<"monitor">>),
       Stmt("local", <<"nslice = 20">>, <<>>),
       Stmt("elements", <<"constf1 = elements.ConstF(name=\"constf1\", ...)">>, <<"constf1">>),
       Stmt("elements", <<"drift1 = elements.Drift(name=\"drift1\", ...)">>, <<"drift1">>),
       Stmt("extend", <<"sim.lattice.extend([monitor, drift1, constf1, drift1, monitor])">>,
            <<"monitor", "drift1", "constf1", "drift1", "monitor">>),
       Stmt("track_particles", <<"sim.track_particles()">>, <<>>),
       Stmt("finalize", <<"sim.finalize()">>, <<>>) >>

ExampleNames == {"run_alignment", "run_thermal", "run_kurth_10nC_periodic"}

ExampleScript(name) ==
    CASE name = "run_alignment" -> run_alignment
      [] name = "run_thermal" -> run_thermal
      [] name = "run_kurth_10nC_periodic" -> run_kurth_10nC_periodic

(***************************************************************************)
(* Running a script: the Python interpreter and the engine                 *)
(***************************************************************************)
\* Statements that are not calls into the engine.
NotEngineCalls == {"import", "local"}

\* The engine calls that may fail with an engine error.
FallibleCalls == {"init_grids", "add_particles", "track_particles"}

\* Python compiles the whole script before it runs any of it.  What the
\* template prints between its own words are the numbers, which always
\* are expressions (a literal, or the name inf or nan, or one of them
\* negated), and the names.
OpenParen == {"(\n", "    **twiss(\n"}

\* The comma after the parameters where there are none.
EmptyArgument(txt) == \E j \in 2..Len(txt) : txt[j] = ",\n" /\ txt[j - 1] \in OpenParen

\* The positions of the constructor calls in a text.
DistributionCalls(txt) == {j \in 1..Len(txt) : txt[j] = "distr = distribution."}

ElementCalls(txt) == {j \in 1..Len(txt) : txt[j] = "elements."}

\* The positions of the = of the key=value arguments of a text.
Assignments(txt) == {j \in 1..Len(txt) : txt[j] = "="}

\* The names a text prints: after distribution. and elements., and before
\* the = of an argument.
NamesOf(txt) ==
    {txt[j + 1] : j \in {i \in DistributionCalls(txt) \cup ElementCalls(txt) : i < Len(txt)}}
    \cup {txt[j - 1] : j \in {i \in Assignments(txt) : i > 1}}

\* The classes of the engine and the parameters of their constructors, as
\* the example scripts name them; every one is a Python identifier and
\* none a keyword.
DistributionKinds == {"Waterbag", "Thermal", "Kurth6D"}

ElementKinds == {"BeamMonitor", "Quad", "Drift", "ConstF", "Constf"}

EngineParameterNames ==
    { "lambdaX", "lambdaY", "lambdaT", "lambdaPx", "lambdaPy", "lambdaPt",
      "muxpx", "muypy", "mutpt",
      "k", "kT", "kT_halo", "normalize", "normalize_halo", "w_halo",
      "ds", "kx", "ky", "kt", "dx", "dy", "rotation", "nslice", "name", "backend" }

EngineNames == DistributionKinds \cup ElementKinds \cup EngineParameterNames

\* No name where the template prints one: distribution.( or (=1.0).
EmptyName(txt) == "" \in NamesOf(txt)

\* compile(script): for a script whose names are the engine's (or ""), a
\* SyntaxError comes of an empty argument or an empty name and of nothing
\* else; a dict has no key twice, so no call has an argument twice.  For
\* any other name nothing is stated.
Compiles(sc) ==
    \E txt \in {ScriptText(sc)} :
        CASE NamesOf(txt) \subseteq EngineNames \cup {""} ->
                 ~EmptyArgument(txt) /\ ~EmptyName(txt)

\* A float that is inf or nan prints as a bare name, inf or nan (-inf is
\* the name negated), which the script does not define: evaluating it
\* raises NameError.  The numbers of a text are printed one character a
\* token; a name is one token, with a word of the template after it.
UndefinedName(txt) ==
    \E j \in 1..(Len(txt) - 2) :
        SubSeq(txt, j, j + 2) \in {<<"i", "n", "f">>, <<"n", "a", "n">>}

\* sim.lattice after a statement.
LatticeAfter(stmt, lat) ==
    IF stmt.call = "append" THEN Append(lat, stmt.arg[1])
    ELSE IF stmt.call = "extend" THEN lat \o stmt.arg
    ELSE lat

\* The engine calls made after a statement: a statement that constructs
\* elements calls elements.<Kind> once for each.
CallsAfter(stmt, cs) ==
    IF stmt.call \in NotEngineCalls THEN cs
    ELSE IF stmt.call = "elements" THEN cs \o [i \in 1..Len(stmt.arg) |-> "elements"]
    ELSE Append(cs, stmt.call)

(***************************************************************************)
(* The states the dashboard can hand to the exporter                       *)
(***************************************************************************)
MaxParams == 3

MaxLattice == 3

SeqUpTo(S, n) == UNION {[1..k -> S] : k \in 0..n}

\* Two of the parameters of distribution.Waterbag.
ParameterNames == {"lambdaX", "muxpx"}

\* What the user typed: "1_0", "2.50" and a no-break space, "1e-5", "abc",
\* "1e400".
ValueStrings ==
    { <<"1", "_", "0">>, <<"2", ".", "5", "0", "U+00A0">>, <<"1", "e", "-", "5">>,
      <<"a", "b", "c">>, <<"1", "e", "4", "0", "0">> }

\* A record that passed the dashboard's validation, and one that did not:
\* its message list is not empty.
ValidParameterRecords ==
    [parameter_name : ParameterNames,
     parameter_default_value : ValueStrings,
     parameter_error_message : {<<>>}]

InvalidParameterRecords ==
    [parameter_name : ParameterNames,
     parameter_default_value : {<<"a", "b", "c">>},
     parameter_error_message : {<<"Must be a float">>}]

ParameterRecords == ValidParameterRecords \cup InvalidParameterRecords

Param(name, value, errors) ==
    [parameter_name |-> name, parameter_default_value |-> value,
     parameter_error_message |-> errors]

DistributionTypes == {"Twiss", "Quadratic"}

Quad ==
    [name |-> "Quad",
     parameters |-> <<Param("ds", <<"1", ".", "0">>, <<>>), Param("k", <<"0", ".", "2", "5">>, <<>>)>>]

Drift == [name |-> "Drift", parameters |-> <<Param("ds", <<"1", ".", "0">>, <<>>)>>]

ConstF ==
    [name |-> "ConstF",
     parameters |-> <<Param("ds", <<"2">>, <<>>), Param("kx", <<"x">>, <<"Must be a float">>)>>]

LatticeElementSet == {Quad, Drift, ConstF}

\* "1.16098260008648811e-3", the lambdaX of run_alignment.py
LambdaXText ==
    << "1", ".", "1", "6", "0", "9", "8", "2", "6", "0", "0", "0", "8", "6", "4", "8", "8",
       "1", "1", "e", "-", "3" >>

\* 938.27208816
ProtonMass == Finite(FALSE, <<"9", "3", "8", "2", "7", "2", "0", "8", "8", "1", "6">>, 0 - 8)

BaseState ==
    [particle_shape |-> 2,
     space_charge |-> FALSE,
     kin_energy_MeV |-> Finite(FALSE, <<"2">>, 3),
     bunch_charge_C |-> Finite(FALSE, <<"1">>, 0 - 9),
     npart |-> 10000,
     charge_qe |-> Finite(FALSE, <<"1">>, 0),
     mass_MeV |-> ProtonMass,
     selectedDistribution |-> "Waterbag",
     selectedDistributionType |-> "Quadratic",
     selectedDistributionParameters |->
         << Param("lambdaX", LambdaXText, <<>>),
            Param("muxpx", <<"0", ".", "0">>, <<>>) >>,
     selectedLatticeList |-> <<Quad, Drift>>]

ParameterStates(n) ==
    {[BaseState EXCEPT !.selectedDistributionParameters = ps,
                       !.selectedDistributionType = t] :
        ps \in SeqUpTo(ParameterRecords, n), t \in DistributionTypes}

LatticeStates(n) ==
    {[BaseState EXCEPT !.selectedLatticeList = l] : l \in SeqUpTo(LatticeElementSet, n)}

ConfigStates ==
    {[BaseState EXCEPT !.mass_MeV = m, !.kin_energy_MeV = k, !.selectedDistribution = d,
                       !.particle_shape = p] :
        m \in {Zero(FALSE), ProtonMass},
        k \in {Zero(FALSE), Finite(FALSE, <<"2">>, 3)},
        d \in {"", "Waterbag", "Thermal"},
        p \in 1..3}

\* The snapshots the exporter's functions are called on ...
ExportState(st) ==
    \/ st \in ParameterStates(MaxParams)
    \/ st \in LatticeStates(MaxLattice)
    \/ st \in ConfigStates

\* ... and those whose exported script is run.
RunState(st) ==
    \/ st \in ParameterStates(1)
    \/ st \in LatticeStates(2)
    \/ st \in ConfigStates

(***************************************************************************)
(* Calls of the exporter on a snapshot of the state                        *)
(***************************************************************************)
NoRun ==
    /\ script = <<>>
    /\ prog = "none"
    /\ pc = 0
    /\ status = "idle"
    /\ calls = <<>>
    /\ lattice = <<>>

NoCall ==
    /\ called = "none"
    /\ raised = "none"
    /\ mapping = <<>>
    /\ text = <<>>

Init == ExportState(state) /\ NoCall /\ NoRun

CallConvert ==
    /\ called = "none"
    /\ \E r \in {convert_distribution_parameters_to_valid_type(state)} :
           /\ called' = "convert_distribution_parameters_to_valid_type"
           /\ raised' = r.exc
           /\ mapping' = r.dict
    /\ UNCHANGED <<state, text, script, prog, pc, status, calls, lattice>>

CallBuildDistributionList ==
    /\ called = "none"
    /\ \E r \in {build_distribution_list(state)} :
           /\ called' = "build_distribution_list"
           /\ raised' = r.exc
           /\ text' = r.text
    /\ UNCHANGED <<state, mapping, script, prog, pc, status, calls, lattice>>

CallBuildLatticeList ==
    /\ called = "none"
    /\ called' = "build_lattice_list"
    /\ raised' = "none"
    /\ text' = build_lattice_list(state)
    /\ UNCHANGED <<state, mapping, script, prog, pc, status, calls, lattice>>

CallInputFile ==
    /\ called = "none"
    /\ prog = "none"
    /\ \E r \in {input_file(state)} :
           /\ called' = "input_file"
           /\ raised' = r.exc
           /\ script' = r.script
    /\ UNCHANGED <<state, mapping, text, prog, pc, status, calls, lattice>>

Next == CallConvert \/ CallBuildDistributionList \/ CallBuildLatticeList \/ CallInputFile

Spec == Init /\ [][Next]_vars

(***************************************************************************)
(* Runs: the exported script, or an example, against the engine            *)
(***************************************************************************)
InitRun == RunState(state) /\ NoCall /\ NoRun

\* python exported.py: the script input_file returned is compiled.
Launch ==
    /\ called = "input_file"
    /\ raised = "none"
    /\ prog = "none"
    /\ prog' = "exported"
    /\ IF Compiles(script)
       THEN status' = "running" /\ pc' = 1
       ELSE status' = "SyntaxError" /\ pc' = 0
    /\ UNCHANGED <<state, called, raised, mapping, text, script, calls, lattice>>

\* python run_<example>.py
StartExample ==
    /\ called = "none"
    /\ prog = "none"
    /\ \E name \in ExampleNames :
          /\ prog' = name
          /\ script' = ExampleScript(name)
    /\ status' = "running"
    /\ pc' = 1
    /\ UNCHANGED <<state, called, raised, mapping, text, calls, lattice>>

\* The statement at pc runs and returns.  The script has no try/finally
\* and no handler: after the last statement the run is done.
Step ==
    /\ status = "running"
    /\ ~UndefinedName(script[pc].text)
    /\ calls' = CallsAfter(script[pc], calls)
    /\ lattice' = LatticeAfter(script[pc], lattice)
    /\ IF pc = Len(script)
       THEN status' = "done" /\ pc' = pc
       ELSE status' = "running" /\ pc' = pc + 1
    /\ UNCHANGED <<state, called, raised, mapping, text, script, prog>>

\* The engine call at pc is made and raises: the exception leaves the
\* script, which ends there.
StepEngineError ==
    /\ status = "running"
    /\ script[pc].call \in FallibleCalls
    /\ calls' = CallsAfter(script[pc], calls)
    /\ status' = "EngineError"
    /\ UNCHANGED <<state, called, raised, mapping, text, script, prog, pc, lattice>>

\* The statement at pc names inf or nan: NameError, before the call the
\* name is an argument of.
StepNameError ==
    /\ status = "running"
    /\ UndefinedName(script[pc].text)
    /\ status' = "NameError"
    /\ UNCHANGED <<state, called, raised, mapping, text, script, prog, pc, calls, lattice>>

NextRun ==
    CallInputFile \/ Launch \/ StartExample \/ Step \/ StepEngineError \/ StepNameError

SpecRun == InitRun /\ [][NextRun]_vars

(***************************************************************************)
(* Properties                                                              *)
(***************************************************************************)
Params == state.selectedDistributionParameters

ValidRecords == {i \in 1..Len(Params) : Params[i].parameter_error_message = <<>>}

\* The valid records of a name, and the first and the last of them.
ValidOf(name) == {i \in ValidRecords : Params[i].parameter_name = name}

FirstValidOf(name) == CHOOSE i \in ValidOf(name) : \A k \in ValidOf(name) : i <= k

LastValidOf(name) == CHOOSE i \in ValidOf(name) : \A k \in ValidOf(name) : k <= i

ConvertReturned == called = "convert_distribution_parameters_to_valid_type" /\ raised = "none"

BuildReturned == called = "build_distribution_list" /\ raised = "none"

\* The order the claim fixes for the engine calls.
Rank(call) ==
    CASE call = "ImpactX" -> 0
      [] call = "flag" -> 1
      [] call = "init_grids" -> 2
      [] call = "ref_particle" -> 3
      [] call = "set_charge_qe" -> 4
      [] call = "set_mass_MeV" -> 5
      [] call = "set_kin_energy_MeV" -> 6
      [] call = "distribution" -> 7
      [] call = "add_particles" -> 8
      [] call \in {"elements", "append", "extend"} -> 9
      [] call = "track_particles" -> 10
      [] call = "finalize" -> 11

Count(call) == Cardinality({i \in 1..Len(calls) : calls[i] = call})

\* A run that no engine call failed is over: the script ran to its end, or
\* a NameError left it.
RunEnded == status \in {"done", "NameError"}

\* C1: in every run that no engine call fails, of the exported script and
\* of each example, the engine calls are made in the order flags,
\* init_grids, reference particle (set_charge_qe, set_mass_MeV,
\* set_kin_energy_MeV), distribution, add_particles, lattice,
\* track_particles, finalize: no later call precedes an earlier one, none
\* of init_grids, track_particles and finalize is made twice, and the run
\* has made each of the three exactly once when it is over.
C1_EngineCallOrder ==
    /\ \A i, j \in 1..Len(calls) : i < j => Rank(calls[i]) <= Rank(calls[j])
    /\ \A c \in {"init_grids", "track_particles", "finalize"} :
          /\ Count(c) <= 1
          /\ RunEnded => Count(c) = 1

\* The k-th constructor call of a lattice text: from elements. to its ).
RenderedCall(txt, k) ==
    LET from == Nth(ElementCalls(txt), k)
        to   == CHOOSE j \in from..Len(txt) :
                    txt[j] = ")" /\ \A i \in from..(j - 1) : txt[i] # ")"
    IN  SubSeq(txt, from, to)

\* C2: build_lattice_list renders one elements.<Kind>(...) call per element
\* of state.selectedLatticeList, the i-th call being that of the i-th
\* element: nothing reordered, deduplicated or left out.
C2_LatticeOrderPreserved ==
    called = "build_lattice_list" =>
        /\ Cardinality(ElementCalls(text)) = Len(state.selectedLatticeList)
        /\ \A k \in 1..Len(state.selectedLatticeList) :
              /\ RenderedCall(text, k)[2] = state.selectedLatticeList[k].name
              /\ RenderedCall(text, k) = LatticeElementText(state.selectedLatticeList[k])

C2_Witness ==
    /\ called = "build_lattice_list"
    /\ Len(state.selectedLatticeList) = 3
    /\ state.selectedLatticeList[1] = state.selectedLatticeList[3]
    /\ state.selectedLatticeList[1] # state.selectedLatticeList[2]
    /\ Cardinality(ElementCalls(text)) = 3

\* C3: a record whose parameter_error_message is not empty contributes
\* nothing to the mapping: every entry has the name of a valid record and
\* the value of the last valid record of that name, whatever invalid
\* records precede or follow it, and a name with no valid record has no
\* entry.
C3_InvalidRecordsContributeNothing ==
    ConvertReturned =>
        \A j \in 1..Len(mapping) :
            /\ ValidOf(mapping[j].key) # {}
            /\ mapping[j].value =
                   ParseFloat(Params[LastValidOf(mapping[j].key)].parameter_default_value)

C3_Witness ==
    /\ ConvertReturned
    /\ Len(mapping) = 1
    /\ \E i, k \in 1..Len(Params) :
          /\ i < k
          /\ i \in ValidRecords
          /\ k \notin ValidRecords
          /\ Params[i].parameter_name = Params[k].parameter_name
    /\ \E k \in 1..Len(Params) : k \notin ValidRecords /\ ValidOf(Params[k].parameter_name) = {}

\* C4: the text build_distribution_list returns is a valid constructor
\* call for every combination of records: no comma stands where no
\* argument precedes it.
C4_NoEmptyArgument == BuildReturned => ~EmptyArgument(text)

\* C5: a run that has called init_grids and has ended, normally or with
\* an engine error, has called finalize.
C5_FinalizeOnEveryExit ==
    (status \in {"done", "EngineError"} /\ Count("init_grids") = 1) => Count("finalize") = 1

ConfigurationMissing ==
    \/ state.mass_MeV = Zero(FALSE)
    \/ state.kin_energy_MeV = Zero(FALSE)
    \/ state.selectedDistribution = ""

\* C6: with the reference particle's mass or kinetic energy zero, or no
\* distribution selected, input_file fails with a ConfigurationError and
\* returns no script.
C6_ConfigurationErrorBeforeEngineCalls ==
    (called = "input_file" /\ ConfigurationMissing) =>
        (raised = "ConfigurationError" /\ script = <<>>)

ValidButNotNumeric ==
    \E i \in ValidRecords : ParseFloat(Params[i].parameter_default_value).kind = "ValueError"

\* C7: a record that is marked valid and whose value is no number makes
\* convert_distribution_parameters_to_valid_type fail with a
\* ValidationError, in itself and under build_distribution_list and
\* input_file.
C7_ValidationErrorOnParseFailure ==
    (called # "none" /\ called # "build_lattice_list" /\ ValidButNotNumeric) =>
        raised = "ValidationError"

\* C8: the keys of the mapping are in the order of the input records (of
\* the first valid record of each name), each name with a valid record
\* has one entry, and the entry holds the value of the last valid record
\* of its name.
C8_InputOrderLastWins ==
    ConvertReturned =>
        /\ {mapping[j].key : j \in 1..Len(mapping)} =
               {Params[i].parameter_name : i \in ValidRecords}
        /\ \A j, k \in 1..Len(mapping) :
              j < k => FirstValidOf(mapping[j].key) < FirstValidOf(mapping[k].key)
        /\ \A j \in 1..Len(mapping) :
              mapping[j].value =
                  ParseFloat(Params[LastValidOf(mapping[j].key)].parameter_default_value)

C8_Witness ==
    /\ ConvertReturned
    /\ Len(Params) = 3
    /\ ValidRecords = {1, 2, 3}
    /\ Params[1].parameter_name = Params[3].parameter_name
    /\ Params[1].parameter_name # Params[2].parameter_name
    /\ ParseFloat(Params[1].parameter_default_value)
           # ParseFloat(Params[3].parameter_default_value)
    /\ Len(mapping) = 2
    /\ mapping[1].key = Params[1].parameter_name

\* How many spaces end at position j of a text.
SpacesBefore(txt, j) ==
    CHOOSE n \in 0..j :
        /\ \A i \in (j - n + 1)..j : txt[i] = " "
        /\ n = j \/ txt[j - n] # " "

\* The characters of the value after the = at position j.
ValueAt(txt, j) ==
    LET to == CHOOSE k \in j..Len(txt) :
                  /\ \A i \in (j + 1)..k : Len(txt[i]) = 1 /\ txt[i] # " "
                  /\ k = Len(txt) \/ Len(txt[k + 1]) # 1 \/ txt[k + 1] = " "
    IN  SubSeq(txt, j + 1, to)

Validated == convert_distribution_parameters_to_valid_type(state).dict

\* C9: the parameter lines are indented by 8 spaces inside a twiss(...)
\* wrapper exactly when the distribution type is "Twiss", and by 4 spaces
\* with no wrapper otherwise; there is one key=value line per entry of the
\* validated mapping, in the mapping's order.
C9_TwissIndentation ==
    BuildReturned =>
        \A validated \in {Validated}, eqs \in {Assignments(text)} :
            LET twiss == state.selectedDistributionType = "Twiss"
            IN  /\ (\E j \in 1..Len(text) : text[j] = "    **twiss(\n") <=> twiss
                /\ Cardinality(eqs) = Len(validated)
                /\ \A k \in 1..Len(validated) :
                      /\ text[Nth(eqs, k) - 1] = validated[k].key
                      /\ ValueAt(text, Nth(eqs, k)) = FloatRepr(validated[k].value)
                      /\ SpacesBefore(text, Nth(eqs, k) - 2) = IF twiss THEN 8 ELSE 4
                      /\ text[Nth(eqs, k) - 2 - (IF twiss THEN 8 ELSE 4)]
                             \in OpenParen \cup {",\n"}

C9_Witness ==
    /\ BuildReturned
    /\ state.selectedDistributionType = "Twiss"
    /\ Len(Validated) = 2
    /\ Cardinality(Assignments(text)) = 2

C9_WitnessFlat ==
    /\ BuildReturned
    /\ state.selectedDistributionType # "Twiss"
    /\ Len(Validated) = 2
    /\ Cardinality(Assignments(text)) = 2

\* Reading a constructor call back as a keyword mapping: the arguments
\* between the innermost ( and its ), split at the commas, each a
\* key=literal; a comma may end the list.
CallArguments(txt) ==
    LET open  == CHOOSE j \in 1..Len(txt) :
                     txt[j] \in OpenParen /\ \A k \in (j + 1)..Len(txt) : txt[k] \notin OpenParen
        close == CHOOSE j \in (open + 1)..Len(txt) :
                     /\ txt[j] \in {"    )\n", ")"}
                     /\ \A k \in (open + 1)..(j - 1) : txt[k] \notin {"    )\n", ")"}
    IN  SubSeq(txt, open + 1, close - 1)

LStripSpaces(seg) == Drop(seg, CHOOSE n \in 0..Len(seg) :
                                   /\ \A i \in 1..n : seg[i] = " "
                                   /\ n = Len(seg) \/ seg[n + 1] # " ")

\* A Python float literal, or one negated: digits with a point or an
\* exponent (or both), read as float() reads them.  inf and nan are names,
\* not literals, and a literal holds no blank, no sign but the exponent's
\* and no digit outside ASCII.
LiteralChars == DigitChars \cup {".", "e", "E", "+", "-", "_"}

ReadLiteral(v) ==
    Only({ IF /\ u # <<>>
              /\ u[1] \in DigitChars \cup {"."}
              /\ \A i \in 1..Len(u) : u[i] \in LiteralChars
              /\ \E i \in 1..Len(u) : u[i] \in {".", "e", "E"}
           THEN ParseFloat(v)
           ELSE NotANumber
           : u \in {IF v # <<>> /\ v[1] = "-" THEN Tail(v) ELSE v} })

\* One argument, key=literal: the key is a parameter's name, the literal a
\* float.
ParseArgument(seg) ==
    Only({ IF Len(a) >= 3 /\ a[2] = "=" /\ a[1] \in EngineParameterNames
           THEN Only({ IF value.kind = "ValueError"
                       THEN [ok |-> FALSE, key |-> "", value |-> NotANumber]
                       ELSE [ok |-> TRUE, key |-> a[1], value |-> value]
                       : value \in {ReadLiteral(Drop(a, 2))} })
           ELSE [ok |-> FALSE, key |-> "", value |-> NotANumber]
           : a \in {LStripSpaces(seg)} })

ParseKeywords(txt) ==
    LET body   == CallArguments(txt)
        commas == {j \in 1..Len(body) : body[j] = ",\n"}
        n      == Cardinality(commas)
        last   == IF n = 0 THEN 0 ELSE Nth(commas, n)
        segs   == [k \in 1..n |->
                      SubSeq(body, (IF k = 1 THEN 0 ELSE Nth(commas, k - 1)) + 1,
                             Nth(commas, k) - 1)]
                  \o (IF last < Len(body) THEN <<Drop(body, last)>> ELSE <<>>)
        args   == [k \in 1..Len(segs) |-> ParseArgument(segs[k])]
    IN  IF \A k \in 1..Len(args) : args[k].ok
        THEN [ok |-> TRUE, items |-> [k \in 1..Len(args) |->
                                         [key |-> args[k].key, value |-> args[k].value]]]
        ELSE [ok |-> FALSE, items |-> <<>>]

\* A configuration whose distribution has parameters, every one of them
\* passed by the dashboard's validation.  (float() has read each value
\* when build_distribution_list returns: each is numeric.)
WellFormed == Params # <<>> /\ ValidRecords = 1..Len(Params)

\* C10: for a well-formed configuration, reading back the constructor call
\* build_distribution_list returns gives the validated mapping: the same
\* keys with the same values, none more and none less, Twiss or not.
C10_RoundTrip ==
    (BuildReturned /\ WellFormed) =>
        \A read \in {ParseKeywords(text)} : read.ok /\ read.items = Validated

====
